---- MODULE Spec2Model ----
(***************************************************************************)
(* Model of kafka_utils/util/ssh.py: the ssh() context manager (alias      *)
(* resolution, bounded connection retry, scoped closing of the client) and *)
(* the Connection class (exec_command, sudo_command, put_file).            *)
(*                                                                         *)
(* The class body defines sudo_command and exec_command twice; Python      *)
(* binds the name to the last definition, so the methods modelled are the  *)
(* ones at lines 72-86 and 88-123.                                         *)
(***************************************************************************)
EXTENDS Integers, Sequences, FiniteSets, TLC

(* ---------------------------- bounds ----------------------------------- *)
MaxAttempts == 3      \* max_attempts is drawn from -1..MaxAttempts
MaxCalls == 2         \* method calls the caller makes on one Connection
MaxLines == 2         \* lines a reported stream holds
MaxLineLen == 2       \* characters of a line before its newline
MaxReports == 2       \* report calls made on one stream

(* ---------------------------- inputs ----------------------------------- *)
Hosts == {"h1", "h2"}
Timeouts == {1, 5}
NoneVal == "None"
Passwords == {NoneVal, "pw"}
ConnectResults == {"ok", "OSError", "SSHException"}
Commands == {"ls", "sudo ls"}
ExitStatuses == {0, 1, 2}
PutResults == {"ok", "IOError"}
\* how a caller passes a second argument to sudo_command: not at all, in
\* second position, or as the keyword check_status
SudoSecondArgs ==
    { [how |-> "none", val |-> TRUE],
      [how |-> "positional", val |-> FALSE],
      [how |-> "keyword", val |-> FALSE],
      [how |-> "keyword", val |-> TRUE] }

\* entries of ~/.ssh/config as SSHConfig.lookup returns them: keys are
\* lower-cased option names, values are strings (the port is a digit string)
NoEntry == [k \in {} |-> ""]
PortOnly == [k \in {"port"} |-> <<"2", "2", "2", "2">>]
FullEntry == [k \in {"user", "port", "proxycommand", "identityfile"} |->
                CASE k = "user" -> <<"a", "l">>
                  [] k = "port" -> <<"2", "2">>
                  [] k = "proxycommand" -> <<"n", "c">>
                  [] k = "identityfile" -> <<"i", "d">>]
AliasFiles ==
    { [exists |-> FALSE, h1 |-> NoEntry],
      [exists |-> TRUE,  h1 |-> PortOnly],
      [exists |-> TRUE,  h1 |-> FullEntry] }

(* ---------------------------- state ------------------------------------ *)
VARIABLES
    pc,          \* position of the ssh() generator / its caller
    args,        \* arguments of the ssh() call
    cfg,         \* keyword arguments built for client.connect
    attempts,    \* local counter of the retry loop
    client,      \* the SSHClient: "none", "new", "connected", "closed"
    connects,    \* result of every client.connect call, in order
    printed,     \* lines printed by ssh()
    sleeps,      \* durations passed to time.sleep
    raised,      \* exceptions ssh() raised to its caller, in order
    conn,        \* the Connection object the caller holds
    yields,      \* number of Connections yielded by ssh()
    blockEnd,    \* how the caller's with-block ended
    aliasFile,   \* the ~/.ssh/config the ssh() call found
    calls,       \* method calls made on the Connection so far
    sessionReqs, \* open_session requests made on the transport
    chanCount,   \* session channels opened on the transport
    cur,         \* the exec_command call blocked on the exit status
    lastExec,    \* the last completed call of exec_command
    lastSudo,    \* the last completed call of sudo_command
    sftp,        \* file-transfer sub-channels: opened, still open, copies
    lastPut,     \* result of the last put_file call
    stream,      \* lines not yet read from the ChannelFile being reported
    console,     \* everything the report functions wrote, in order
    lastReport,  \* the last report call: host, kind, lines read, writes
    reports,     \* number of report calls made
    thr,         \* the ssh() calls of two concurrent threads of control
    counter      \* the attempts counters of those calls

sshVars == <<pc, args, cfg, attempts, client, connects, printed, sleeps,
             raised, conn, yields, blockEnd, aliasFile>>
connVars == <<calls, sessionReqs, chanCount, cur, lastExec, lastSudo, sftp,
              lastPut>>
repVars == <<stream, console, lastReport, reports>>
thrVars == <<thr, counter>>
otherVars == <<repVars, thrVars>>
vars == <<sshVars, connVars, otherVars>>

NoArgs == [host |-> "", forward_agent |-> FALSE, sudoable |-> FALSE,
           max_attempts |-> 0, max_timeout |-> 0, ssh_password |-> NoneVal]
NoConn == [transport |-> "unbound", forward_agent |-> FALSE, sudoable |-> FALSE]
NoHandles == [chan |-> 0, streams |-> << >>]
NoReport == [host |-> "", kind |-> "none", lines |-> << >>, out |-> << >>]
NoCall == [form |-> "none", arg |-> "", how |-> "none", passed |-> TRUE,
           command |-> "", bufsize |-> -1, cs |-> TRUE, chan |-> 0,
           steps |-> << >>, remote |-> "none", status |-> 0,
           statusRead |-> FALSE, outcome |-> "none", errCmd |-> "",
           handles |-> NoHandles, established |-> FALSE, precheck |-> "none"]

(* ---------------------------- helpers ---------------------------------- *)
DigitVal(d) ==
    CASE d = "0" -> 0 [] d = "1" -> 1 [] d = "2" -> 2 [] d = "3" -> 3
      [] d = "4" -> 4 [] d = "5" -> 5 [] d = "6" -> 6 [] d = "7" -> 7
      [] d = "8" -> 8 [] d = "9" -> 9

RECURSIVE ParseInt(_)
ParseInt(s) ==
    IF s = << >> THEN 0
    ELSE 10 * ParseInt(SubSeq(s, 1, Len(s) - 1)) + DigitVal(s[Len(s)])

\* variant: the entry of h1 is returned for every alias
Lookup_AnyHost(file, host) == file.h1

\* ssh_config.lookup(host) for the modelled files: only alias h1 has an entry
Lookup(file, host) == IF host = "h1" THEN file.h1 ELSE NoEntry

\* the cfg dictionary of lines 152-175
BuildCfg(host, max_timeout, ssh_password, file) ==
    LET base == [k \in {"hostname"} |-> host] @@ ("timeout" :> max_timeout)
        withPw == IF ssh_password # NoneVal
                  THEN base @@ ("password" :> ssh_password) ELSE base
        hc == Lookup(file, host)
        withUser == IF file.exists /\ "user" \in DOMAIN hc
                    THEN withPw @@ ("username" :> hc["user"]) ELSE withPw
        withSock == IF file.exists /\ "proxycommand" \in DOMAIN hc
                    THEN withUser @@ ("sock" :> hc["proxycommand"]) ELSE withUser
        withKey == IF file.exists /\ "identityfile" \in DOMAIN hc
                   THEN withSock @@ ("key_filename" :> hc["identityfile"])
                   ELSE withSock
    IN  IF file.exists /\ "port" \in DOMAIN hc
        THEN withKey @@ ("port" :> ParseInt(hc["port"])) ELSE withKey

\* client.get_transport(): None until connect has succeeded
GetTransport(c) == IF c = "connected" THEN "transport" ELSE NoneVal

\* Connection.__init__
Connection(c, forward_agent, sudoable) ==
    [transport |-> GetTransport(c), forward_agent |-> forward_agent,
     sudoable |-> sudoable]

\* variant: the message counts the retries after the first attempt
MaxConnectionAttemptsError_RetriesOnly(host, max_attempts) ==
    [type |-> "MaxConnectionAttemptsError", host |-> host,
     n |-> max_attempts - 1]

\* the exception of lines 191-193
MaxConnectionAttemptsError(host, max_attempts) ==
    [type |-> "MaxConnectionAttemptsError", host |-> host, n |-> max_attempts]

PropagatedError(r) == [type |-> r, host |-> "", n |-> 0]

\* variant: the client is closed by a plain statement after the yield
closing_NoFinally(how) == IF how = "normal" THEN "closed" ELSE "connected"

\* closing(SSHClient()) of line 149: the client is closed however the with
\* statement is left
closing(how) == "closed"

\* variant: a successful connect does not leave the loop
AfterConnect_NoBreak(r) ==
    CASE r = "ok" -> "loop" [] r = "OSError" -> "loop" [] OTHER -> "done"

\* variant: the except clause leaves the loop as a success does
AfterConnect_ExceptBreaks(r) ==
    CASE r = "ok" -> "afterloop" [] r = "OSError" -> "afterloop"
      [] OTHER -> "done"

\* variant: the except clause catches every exception
AfterConnect_CatchAll(r) ==
    CASE r = "ok" -> "afterloop" [] OTHER -> "loop"

\* where control goes after client.connect returned or raised r: break
\* (line 182), back to the loop test (except OSError, line 183), or out of
\* the generator with the exception
AfterConnect(r) ==
    CASE r = "ok" -> "afterloop" [] r = "OSError" -> "loop" [] OTHER -> "done"

\* variant: the body runs once before the condition is tested
LoopContinues_AtLeastOnce(a, n) == a = 0 \/ a < n

\* variant: the condition admits one attempt more
LoopContinues_OffByOne(a, n) == a <= n

\* line 178: while attempts < max_attempts
LoopContinues(a, n) == a < n

\* variant: a retry is announced after the final attempt as well
RetriesRemain_Always(a, n) == a <= n

\* line 184: if attempts < max_attempts (attempts already incremented)
RetriesRemain(a, n) == a < n

\* line 186: time.sleep(max_timeout)
SleepTime(a) == a.max_timeout

(* ---------------------------- ssh() ------------------------------------ *)
InitCalls ==
    /\ pc = "idle"
    /\ args = NoArgs
    /\ cfg = NoEntry
    /\ attempts = 0
    /\ client = "none"
    /\ connects = << >>
    /\ printed = << >>
    /\ sleeps = << >>
    /\ raised = << >>
    /\ conn = NoConn
    /\ yields = 0
    /\ blockEnd = "none"
    /\ aliasFile = [exists |-> FALSE, h1 |-> NoEntry]
    /\ calls = 0
    /\ sessionReqs = 0
    /\ chanCount = 0
    /\ cur = NoCall
    /\ lastExec = NoCall
    /\ lastSudo = NoCall
    /\ sftp = [opened |-> 0, open |-> 0, puts |-> 0]
    /\ lastPut = "none"

InitReports ==
    /\ console = << >>
    /\ lastReport = NoReport
    /\ reports = 0

Threads == {1, 2}

IdleFrame == [pc |-> "idle", host |-> "", max_attempts |-> 0,
              max_timeout |-> 0, cfg |-> NoEntry, client |-> "none",
              connects |-> << >>, notices |-> 0, diags |-> 0, sleeps |-> << >>,
              raised |-> "none", yielded |-> FALSE]

InitThreads ==
    /\ thr = [t \in Threads |-> IdleFrame]
    /\ counter = [t \in Threads |-> 0]

Init == InitCalls /\ InitReports /\ stream = << >> /\ InitThreads

\* lines 149-177: enter closing(SSHClient()), build cfg, attempts = 0; the
\* host, max_attempts, password and alias file are drawn from the given sets
SshCallWith(hs, ns, pws, files) ==
    /\ pc = "idle"
    /\ \E h \in hs, fa \in BOOLEAN, sd \in BOOLEAN, n \in ns,
          t \in Timeouts, pw \in pws, file \in files :
         /\ args' = [host |-> h, forward_agent |-> fa, sudoable |-> sd,
                     max_attempts |-> n, max_timeout |-> t,
                     ssh_password |-> pw]
         /\ cfg' = BuildCfg(h, t, pw, file)
         /\ aliasFile' = file
    /\ client' = "new"
    /\ attempts' = 0
    /\ pc' = "loop"
    /\ UNCHANGED <<connects, printed, sleeps, raised, conn, yields, blockEnd>>
    /\ UNCHANGED <<connVars, otherVars>>

\* ssh() called with any of the modelled arguments and alias files
SshCall == SshCallWith(Hosts, -1..MaxAttempts, Passwords, AliasFiles)

\* ssh("h1", max_attempts=n) with n >= 1, no password and no alias file
SshCallPlain ==
    SshCallWith({"h1"}, 1..MaxAttempts, {NoneVal},
                {f \in AliasFiles : ~f.exists})

\* what one pass through the loop body does with the result r of connect
\* (lines 179-188)
AttemptBody(r) ==
    /\ attempts' = attempts + 1
    /\ connects' = Append(connects, r)
    /\ pc' = AfterConnect(r)
    /\ CASE r = "ok" ->
              /\ client' = "connected"
              /\ UNCHANGED <<printed, sleeps, raised>>
         [] r = "OSError" ->
              /\ IF RetriesRemain(attempts + 1, args.max_attempts)
                 THEN /\ printed' = Append(printed,
                            [kind |-> "retry", about |-> args.host])
                      /\ sleeps' = Append(sleeps, SleepTime(args))
                 ELSE /\ printed' = Append(printed,
                            [kind |-> "diag", about |-> r])
                      /\ sleeps' = sleeps
              /\ UNCHANGED <<client, raised>>
         [] OTHER ->
              \* not an OSError: leaves the generator through closing()
              /\ client' = closing("exception")
              /\ raised' = Append(raised, PropagatedError(r))
              /\ UNCHANGED <<printed, sleeps>>

\* lines 178-188: one iteration of the while loop
Attempt ==
    /\ pc = "loop"
    /\ LoopContinues(attempts, args.max_attempts)
    /\ \E r \in ConnectResults : AttemptBody(r)
    /\ UNCHANGED <<args, cfg, conn, yields, blockEnd>>
    /\ UNCHANGED <<aliasFile, connVars, otherVars>>

\* lines 190-193: the loop condition became false without a break
LoopElse ==
    /\ pc = "loop"
    /\ ~LoopContinues(attempts, args.max_attempts)
    /\ raised' = Append(raised,
                    MaxConnectionAttemptsError(args.host, args.max_attempts))
    /\ client' = closing("exception")
    /\ pc' = "done"
    /\ UNCHANGED <<args, cfg, attempts, connects, printed, sleeps, conn,
                   yields, blockEnd>>
    /\ UNCHANGED <<aliasFile, connVars, otherVars>>

\* line 195: yield Connection(client, forward_agent, sudoable)
Yield ==
    /\ pc = "afterloop"
    /\ conn' = Connection(client, args.forward_agent, args.sudoable)
    /\ yields' = yields + 1
    /\ pc' = "yielded"
    /\ UNCHANGED <<args, cfg, attempts, client, connects, printed, sleeps,
                   raised, blockEnd>>
    /\ UNCHANGED <<aliasFile, connVars, otherVars>>

\* the caller's with-block ends (normally or by an exception thrown into the
\* generator at the yield); closing() closes the client either way
BlockEnd ==
    /\ pc = "yielded"
    /\ cur = NoCall
    /\ \E how \in {"normal", "exception"} :
         /\ blockEnd' = how
         /\ client' = closing(how)
         \* closing the transport ends the channels still open on it
         /\ sftp' = IF closing(how) = "closed"
                    THEN [sftp EXCEPT !.open = 0] ELSE sftp
    /\ pc' = "done"
    /\ UNCHANGED <<args, cfg, attempts, connects, printed, sleeps, raised,
                   conn, yields>>
    /\ UNCHANGED <<calls, sessionReqs, chanCount, cur, lastExec, lastSudo,
                   lastPut, aliasFile>>
    /\ UNCHANGED otherVars

\* a caller builds a Connection around a client that never connected
DirectConnection ==
    /\ pc = "idle"
    /\ client' = "new"
    /\ \E fa \in BOOLEAN, sd \in BOOLEAN : conn' = Connection("new", fa, sd)
    /\ pc' = "direct"
    /\ UNCHANGED <<args, cfg, attempts, connects, printed, sleeps, raised,
                   yields, blockEnd>>
    /\ UNCHANGED <<aliasFile, connVars, otherVars>>

(* ---------------------------- Connection ------------------------------- *)
\* the caller holds a Connection and is not blocked inside a call
CanCall ==
    /\ conn # NoConn
    /\ pc \in {"yielded", "done", "direct"}
    /\ cur = NoCall
    /\ calls < MaxCalls

\* the transport accepts new channels only while the client is connected
Active == client = "connected"

SudoPrefix == "sudo "

\* variant: the pseudo-terminal is requested after the command is submitted
ChannelSteps_PtyAfterExec(c) ==
    <<"open_session">>
    \o (IF c.forward_agent THEN <<"AgentRequestHandler">> ELSE << >>)
    \o <<"exec_command">>
    \o (IF c.sudoable THEN <<"get_pty">> ELSE << >>)

\* steps performed on the channel by lines 106-113
ChannelSteps(c) ==
    <<"open_session">>
    \o (IF c.forward_agent THEN <<"AgentRequestHandler">> ELSE << >>)
    \o (IF c.sudoable THEN <<"get_pty">> ELSE << >>)
    \o <<"exec_command">>

Streams == <<"stdin", "stdout", "stderr">>

\* variant: the exit status is awaited whatever check_status is
WaitsForStatus_Always(check_status) == TRUE

\* line 114: recv_exit_status is evaluated only when check_status is true
WaitsForStatus(check_status) == check_status

\* exec_command up to the evaluation of check_status on line 114; rec holds
\* what the caller passed
exec_command(rec, command, bufsize, check_status) ==
    LET r == [rec EXCEPT !.command = command, !.bufsize = bufsize,
                         !.cs = check_status]
    IN  IF conn.transport = NoneVal
        THEN [r EXCEPT !.outcome = "AssertionError", !.precheck = "failed"]
        ELSE IF ~Active
        THEN \* the assert passes on the cached transport; open_session on
             \* a transport that is no longer active raises
             [r EXCEPT !.outcome = "SSHException", !.precheck = "passed",
                       !.steps = <<"open_session">>]
        ELSE IF WaitsForStatus(check_status)
        THEN [r EXCEPT !.chan = chanCount + 1, !.steps = ChannelSteps(conn),
                       !.precheck = "passed",
                       !.remote = "running", !.outcome = "pending"]
        ELSE [r EXCEPT !.chan = chanCount + 1, !.steps = ChannelSteps(conn),
                       !.precheck = "passed",
                       !.remote = "running", !.outcome = "returned",
                       !.handles = [chan |-> chanCount + 1,
                                    streams |-> Streams]]

\* variant: the prefix lacks its separating blank
NewCommand_NoBlank(command) == "sudo" \o command

\* line 85
NewCommand(command) == SudoPrefix \o command

\* variant: the second argument is handed on as check_status
SudoCheckStatus_Forwarded(second) == second.val

\* line 86 passes no check_status, so exec_command uses its default
SudoCheckStatus(second) == TRUE

\* sudo_command(command, bufsize=-1): a keyword check_status is rejected when
\* the call is bound; a second positional argument is the bufsize
sudo_command(rec, command, second) ==
    IF second.how = "keyword"
    THEN [rec EXCEPT !.outcome = "TypeError"]
    ELSE exec_command(rec, NewCommand(command),
                      IF second.how = "positional"
                      THEN (IF second.val THEN 1 ELSE 0) ELSE -1,
                      SudoCheckStatus(second))

\* bookkeeping shared by the two entry points: counters of the transport and
\* where the call record goes
Started(r) ==
    /\ calls' = calls + 1
    /\ sessionReqs' = IF r.steps # << >> THEN sessionReqs + 1 ELSE sessionReqs
    /\ chanCount' = IF r.chan # 0 THEN chanCount + 1 ELSE chanCount
    /\ IF r.outcome = "pending"
       THEN cur' = r /\ UNCHANGED <<lastExec, lastSudo>>
       ELSE /\ cur' = NoCall
            /\ IF r.form = "exec"
               THEN lastExec' = r /\ UNCHANGED lastSudo
               ELSE lastSudo' = r /\ UNCHANGED lastExec
    /\ UNCHANGED <<sftp, lastPut>>
    /\ UNCHANGED <<sshVars, otherVars>>

\* the caller calls conn.exec_command(c, check_status=cs)
ExecCommand ==
    /\ CanCall
    /\ \E c \in Commands, cs \in BOOLEAN :
         Started(exec_command([NoCall EXCEPT !.form = "exec", !.arg = c,
                                             !.how = "keyword", !.passed = cs,
                                             !.established = Active],
                              c, -1, cs))

\* the caller calls conn.sudo_command(c) with or without a second argument
SudoCommand ==
    /\ CanCall
    /\ \E c \in Commands, second \in SudoSecondArgs :
         Started(sudo_command([NoCall EXCEPT !.form = "sudo", !.arg = c,
                                             !.how = second.how,
                                             !.passed = second.val,
                                             !.established = Active],
                              c, second))

\* the remote process of the channel opened last exits with status s
RemoteExit ==
    /\ \E s \in ExitStatuses :
         \/ /\ cur.remote = "running"
            /\ cur' = [cur EXCEPT !.remote = "exited", !.status = s]
            /\ UNCHANGED <<lastExec, lastSudo>>
         \/ /\ lastExec.remote = "running" /\ lastExec.chan = chanCount
            /\ lastExec' = [lastExec EXCEPT !.remote = "exited", !.status = s]
            /\ UNCHANGED <<cur, lastSudo>>
    /\ UNCHANGED <<calls, sessionReqs, chanCount, sftp, lastPut>>
    /\ UNCHANGED <<sshVars, otherVars>>

\* variant: only exit status 1 is taken as a failure
recv_exit_status_OnlyOne(r) ==
    LET read == [r EXCEPT !.statusRead = TRUE]
    IN  IF read.status = 1
        THEN [read EXCEPT !.outcome = "RuntimeError", !.errCmd = r.command]
        ELSE [read EXCEPT !.outcome = "returned",
                          !.handles = [chan |-> r.chan, streams |-> Streams]]

\* lines 114-123 once recv_exit_status has a status to return
recv_exit_status(r) ==
    LET read == [r EXCEPT !.statusRead = TRUE]
    IN  IF read.status # 0
        THEN [read EXCEPT !.outcome = "RuntimeError", !.errCmd = r.command]
        ELSE [read EXCEPT !.outcome = "returned",
                          !.handles = [chan |-> r.chan, streams |-> Streams]]

ExecReturn ==
    /\ cur.outcome = "pending"
    /\ cur.remote = "exited"
    /\ cur' = NoCall
    /\ IF cur.form = "exec"
       THEN lastExec' = recv_exit_status(cur) /\ UNCHANGED lastSudo
       ELSE lastSudo' = recv_exit_status(cur) /\ UNCHANGED lastExec
    /\ UNCHANGED <<calls, sessionReqs, chanCount, sftp, lastPut>>
    /\ UNCHANGED <<sshVars, otherVars>>

\* put_file (lines 67-70) with the result res of sftp.put
put_file(res) ==
    IF conn.transport = NoneVal
    THEN [out |-> "AssertionError", sftp |-> sftp]
    ELSE IF ~Active
    THEN [out |-> "SSHException", sftp |-> sftp]
    ELSE IF res = "ok"
    THEN [out |-> "returned",
          sftp |-> [opened |-> sftp.opened + 1, open |-> sftp.open,
                    puts |-> sftp.puts + 1]]
    ELSE [out |-> res,
          sftp |-> [opened |-> sftp.opened + 1, open |-> sftp.open + 1,
                    puts |-> sftp.puts + 1]]

PutFile ==
    /\ CanCall
    /\ \E res \in PutResults :
         /\ lastPut' = put_file(res).out
         /\ sftp' = put_file(res).sftp
    /\ calls' = calls + 1
    /\ UNCHANGED <<sessionReqs, chanCount, cur, lastExec, lastSudo>>
    /\ UNCHANGED <<sshVars, otherVars>>

(* ---------------------------- reporting -------------------------------- *)
Whitespace == {" ", "NL"}
LineChars == {"a", " "}

\* the lines readlines() can return: a body and its newline
Lines ==
    {body \o <<"NL">> :
        body \in UNION {[1..n -> LineChars] : n \in 0..MaxLineLen}}

StreamContents == UNION {[1..n -> Lines] : n \in 0..MaxLines}

\* variant: only the newline is removed
RECURSIVE rstrip_NewlineOnly(_)
rstrip_NewlineOnly(line) ==
    IF line # << >> /\ line[Len(line)] = "NL"
    THEN rstrip_NewlineOnly(SubSeq(line, 1, Len(line) - 1))
    ELSE line

\* line.rstrip()
RECURSIVE rstrip(_)
rstrip(line) ==
    IF line # << >> /\ line[Len(line)] \in Whitespace
    THEN rstrip(SubSeq(line, 1, Len(line) - 1))
    ELSE line

\* variant: the header is printed for an empty stream as well
HasLines_Always(lines) == TRUE

\* lines 207 and 222: if lines
HasLines(lines) == lines # << >>

\* the writes of lines 207-210 (label STDOUT, file sys.stdout) and of lines
\* 222-225 (label STDERR, file sys.stderr); the header is printed without a
\* file argument, so it goes to standard output in both functions
Written(host, lines, label, file) ==
    IF HasLines(lines)
    THEN <<[file |-> "stdout", text |-> <<label, " from ", host, ":">>]>>
         \o [i \in 1..Len(lines) |->
                [file |-> file, text |-> rstrip(lines[i])]]
    ELSE << >>

\* one call of a report function: readlines() drains the stream
Report(host, kind, label, file) ==
    /\ reports < MaxReports
    /\ reports' = reports + 1
    /\ stream' = << >>
    /\ lastReport' = [host |-> host, kind |-> kind, lines |-> stream,
                      out |-> Written(host, stream, label, file)]
    /\ console' = console \o Written(host, stream, label, file)
    /\ UNCHANGED <<sshVars, connVars, thrVars>>

report_stdout == \E h \in Hosts : Report(h, "output", "STDOUT", "stdout")

report_stderr == \E h \in Hosts : Report(h, "error", "STDERR", "stderr")

\* the caller reads one line of the stream itself before reporting it
ReadLine ==
    /\ stream # << >>
    /\ reports = 0
    /\ stream' = Tail(stream)
    /\ UNCHANGED <<console, lastReport, reports>>
    /\ UNCHANGED <<sshVars, connVars, thrVars>>

(* ---------------------------- concurrent calls ------------------------- *)
\* variant: the counter is one module-level variable shared by all calls
CounterOf_Shared(t) == 1

\* line 177: attempts is a local variable of the generator, one per call
CounterOf(t) == t

Attempts(t) == counter[CounterOf(t)]

\* lines 149-177 in thread t
TCall(t) ==
    /\ thr[t].pc = "idle"
    /\ \E h \in Hosts, n \in -1..MaxAttempts, mt \in {5} :
         thr' = [thr EXCEPT ![t] =
                   [@ EXCEPT !.pc = "loop", !.host = h, !.max_attempts = n,
                             !.max_timeout = mt, !.client = "new",
                             !.cfg = BuildCfg(h, mt, NoneVal,
                                       [exists |-> FALSE, h1 |-> NoEntry])]]
    /\ counter' = [counter EXCEPT ![CounterOf(t)] = 0]

\* lines 178-181 in thread t: loop test, increment, connect is called
TConnectStart(t) ==
    /\ thr[t].pc = "loop"
    /\ LoopContinues(Attempts(t), thr[t].max_attempts)
    /\ counter' = [counter EXCEPT ![CounterOf(t)] = @ + 1]
    /\ thr' = [thr EXCEPT ![t].pc = "connecting"]

\* lines 181-188 in thread t: connect returns or raises r
TConnectDone(t) ==
    /\ thr[t].pc = "connecting"
    /\ \E r \in ConnectResults :
         LET f == [thr[t] EXCEPT !.connects = Append(@, r),
                                 !.pc = AfterConnect(r)]
         IN  thr' = [thr EXCEPT ![t] =
               CASE r = "ok" -> [f EXCEPT !.client = "connected"]
                 [] r = "OSError" ->
                      IF RetriesRemain(Attempts(t), f.max_attempts)
                      THEN [f EXCEPT !.notices = @ + 1,
                                     !.sleeps = Append(@, SleepTime(f))]
                      ELSE [f EXCEPT !.diags = @ + 1]
                 [] OTHER -> [f EXCEPT !.client = closing("exception"),
                                       !.raised = r]]
    /\ UNCHANGED counter

\* lines 190-193 in thread t
TLoopElse(t) ==
    /\ thr[t].pc = "loop"
    /\ ~LoopContinues(Attempts(t), thr[t].max_attempts)
    /\ thr' = [thr EXCEPT ![t] =
                 [@ EXCEPT !.pc = "done",
                           !.raised = "MaxConnectionAttemptsError",
                           !.client = closing("exception")]]
    /\ UNCHANGED counter

\* line 195 in thread t
TYield(t) ==
    /\ thr[t].pc = "afterloop"
    /\ thr' = [thr EXCEPT ![t] = [@ EXCEPT !.pc = "yielded",
                                           !.yielded = TRUE]]
    /\ UNCHANGED counter

\* the with-block of thread t ends
TBlockEnd(t) ==
    /\ thr[t].pc = "yielded"
    /\ \E how \in {"normal", "exception"} :
         thr' = [thr EXCEPT ![t] = [@ EXCEPT !.pc = "done",
                                             !.client = closing(how)]]
    /\ UNCHANGED counter

Rest == UNCHANGED <<sshVars, connVars, repVars>>

ThreadCall == (\E t \in Threads : TCall(t)) /\ Rest
ThreadConnectStart == (\E t \in Threads : TConnectStart(t)) /\ Rest
ThreadConnectDone == (\E t \in Threads : TConnectDone(t)) /\ Rest
ThreadLoopElse == (\E t \in Threads : TLoopElse(t)) /\ Rest
ThreadYield == (\E t \in Threads : TYield(t)) /\ Rest
ThreadBlockEnd == (\E t \in Threads : TBlockEnd(t)) /\ Rest

(* ---------------------------- properties ------------------------------- *)
\* every connect attempt made so far failed with an error the loop retries
AllAttemptsFailed ==
    /\ connects # << >>
    /\ \A i \in 1..Len(connects) : connects[i] = "OSError"

\* attempts 1..k-1 failed with a retried error and attempt k succeeded
SucceededOnLast ==
    /\ connects # << >>
    /\ connects[Len(connects)] = "ok"
    /\ \A i \in 1..(Len(connects) - 1) : connects[i] = "OSError"

C2_SuccessOnAttemptK ==
    /\ \A i \in 1..Len(connects) : connects[i] = "ok" => i = Len(connects)
    /\ SucceededOnLast =>
        /\ Len(connects) <= args.max_attempts
        /\ attempts = Len(connects)
        /\ raised = << >>
        /\ pc \in {"afterloop", "yielded", "done"}
        /\ pc \in {"yielded", "done"} =>
             /\ yields = 1
             /\ conn = [transport |-> "transport",
                        forward_agent |-> args.forward_agent,
                        sudoable |-> args.sudoable]

C2_Witness ==
    /\ pc = "done"
    /\ args.max_attempts = 3
    /\ connects = <<"OSError", "OSError", "ok">>
    /\ yields = 1

\* C3: a Connection has been handed to the caller by ssh() only if a connect
\* attempt on its client returned successfully before.
C3_YieldOnlyAfterConnect ==
    (yields > 0 \/ pc = "yielded") =>
        /\ \E i \in 1..Len(connects) : connects[i] = "ok"
        /\ conn.transport = "transport"
        /\ raised = << >>

C3_Witness ==
    /\ pc = "yielded"
    /\ Len(connects) = 2
    /\ args.host = "h2"
    /\ conn.transport = "transport"

\* C4: whenever ssh() has finished - the caller's block ended normally or
\* by an exception, the attempts were exhausted, or connect raised an
\* exception that is not retried - the client is closed.
C4_ClosedOnEveryExit ==
    pc = "done" =>
        /\ client = "closed"
        /\ \/ blockEnd \in {"normal", "exception"} /\ raised = << >>
           \/ blockEnd = "none" /\ Len(raised) = 1

C4_Witness ==
    /\ pc = "done"
    /\ blockEnd = "exception"
    /\ client = "closed"
    /\ calls > 0

\* the calls of exec_command and sudo_command made so far that are recorded
RecordedCalls == {r \in {cur, lastExec, lastSudo} : r.form # "none"}

\* C5: a call of exec_command or sudo_command on a Connection whose session
\* is not established (never connected, or closed since) fails at the
\* precondition check, before anything is requested from the transport.
C5_FailsAtPrecondition ==
    \A r \in RecordedCalls :
        (~r.established /\ r.outcome # "TypeError") =>
            /\ r.precheck = "failed"
            /\ r.outcome = "AssertionError"
            /\ r.steps = << >>

\* C6: a finished exec_command(C, check_status=true) submitted C once on a
\* channel of its own, read the exit status after the remote process had
\* exited, and returned the three handles of that channel on status 0 or
\* failed naming C, with no handles, on any other status.
C6_CheckedExec ==
    /\ chanCount <= calls
    /\ cur # NoCall => cur.handles = NoHandles /\ ~cur.statusRead
    /\ (lastExec.form = "exec" /\ lastExec.cs /\ lastExec.established) =>
        /\ lastExec.command = lastExec.arg
        /\ Len(SelectSeq(lastExec.steps, LAMBDA x : x = "exec_command")) = 1
        /\ lastExec.steps[1] = "open_session"
        /\ lastExec.chan \in 1..chanCount
        /\ lastSudo.chan # lastExec.chan
        /\ lastExec.remote = "exited"
        /\ lastExec.statusRead
        /\ lastExec.status = 0 =>
             /\ lastExec.outcome = "returned"
             /\ lastExec.handles = [chan |-> lastExec.chan,
                                    streams |-> <<"stdin", "stdout", "stderr">>]
        /\ lastExec.status # 0 =>
             /\ lastExec.outcome = "RuntimeError"
             /\ lastExec.errCmd = lastExec.arg
             /\ lastExec.handles = NoHandles

C6_Witness ==
    /\ lastExec.form = "exec" /\ lastExec.cs /\ lastExec.established
    /\ lastExec.status = 2
    /\ lastExec.outcome = "RuntimeError"
    /\ lastExec.chan = 2

\* C7: exec_command(C, check_status=false) on an established session never
\* waits for or reads the exit status: it returns the three handles while
\* the remote command may still be running, and stays returned whatever
\* status the command exits with later.
C7_UncheckedExec ==
    /\ (cur.form = "exec") => cur.passed
    /\ (lastExec.form = "exec" /\ ~lastExec.passed /\ lastExec.established) =>
        /\ ~lastExec.statusRead
        /\ lastExec.outcome = "returned"
        /\ lastExec.command = lastExec.arg
        /\ lastExec.handles = [chan |-> lastExec.chan,
                               streams |-> <<"stdin", "stdout", "stderr">>]

C7_Witness ==
    /\ lastExec.form = "exec" /\ ~lastExec.passed /\ lastExec.established
    /\ lastExec.remote = "running"
    /\ lastExec.outcome = "returned"

\* C8: sudo_command(C) submits the string "sudo " followed by C, and ends as
\* a call exec_command("sudo " + C) does on the same Connection with the
\* same remote behaviour: same channel steps, same status check, same
\* result.
C8_SudoAsExec ==
    /\ \A r \in {cur, lastSudo} :
        (r.form = "sudo" /\ r.how = "none" /\ r.established) =>
            /\ r.arg = "ls" => r.command = "sudo ls"
            /\ r.arg = "sudo ls" => r.command = "sudo sudo ls"
            /\ r.steps[Len(r.steps)] = "exec_command"
    /\ ( /\ lastSudo.form = "sudo" /\ lastSudo.how = "none"
         /\ lastExec.form = "exec" /\ lastExec.passed
         /\ lastSudo.established /\ lastExec.established
         /\ lastSudo.arg = "ls" /\ lastExec.arg = "sudo ls"
         /\ lastSudo.status = lastExec.status ) =>
            /\ lastSudo.command = lastExec.command
            /\ lastSudo.steps = lastExec.steps
            /\ lastSudo.bufsize = lastExec.bufsize
            /\ lastSudo.statusRead = lastExec.statusRead
            /\ lastSudo.outcome = lastExec.outcome
            /\ lastSudo.errCmd = lastExec.errCmd
            /\ lastSudo.handles.streams = lastExec.handles.streams

C8_Witness ==
    /\ lastSudo.form = "sudo" /\ lastSudo.how = "none"
    /\ lastExec.form = "exec" /\ lastExec.passed
    /\ lastSudo.established /\ lastExec.established
    /\ lastSudo.arg = "ls" /\ lastExec.arg = "sudo ls"
    /\ lastSudo.status = 1 /\ lastExec.status = 1
    /\ lastSudo.outcome = "RuntimeError"

\* C9 as claimed: sudo_command(C, check_status=false) on an established
\* session does not read the exit status and returns without failing.
C9_SudoHonoursCheckStatus ==
    \A r \in {cur, lastSudo} :
        (r.form = "sudo" /\ r.how # "none" /\ ~r.passed /\ r.established) =>
            /\ ~r.cs
            /\ ~r.statusRead
            /\ r.outcome = "returned"

\* C9 amended: sudo_command has no check_status parameter.  A call that
\* passes check_status by keyword fails with TypeError before anything is
\* submitted; every other call runs exec_command("sudo " + C) with
\* check_status true, whatever was passed in second position: the call waits
\* for the exit status and fails on a non-zero one.
C9_SudoAlwaysChecks ==
    \A r \in {cur, lastSudo} :
        (r.form = "sudo" /\ r.established) =>
            /\ r.how = "keyword" =>
                 r.outcome = "TypeError" /\ r.steps = << >> /\ r.chan = 0
            /\ r.how # "keyword" =>
                 /\ r.cs
                 /\ r.command = "sudo " \o r.arg
                 /\ r.outcome \in {"pending", "returned", "RuntimeError"}
                 /\ r.outcome = "pending" => ~r.statusRead
                 /\ r.outcome = "returned" => r.statusRead /\ r.status = 0
                 /\ r.outcome = "RuntimeError" =>
                      r.statusRead /\ r.status # 0 /\ r.errCmd = r.command

C9_Witness ==
    /\ lastSudo.form = "sudo" /\ lastSudo.how = "positional"
    /\ ~lastSudo.passed /\ lastSudo.established
    /\ lastSudo.status = 1
    /\ lastSudo.outcome = "RuntimeError"

\* C10: once put_file has returned or raised, the file-transfer sub-channel
\* it opened is closed, and each call made one copy attempt.
C10_SubChannelReleased ==
    lastPut # "none" =>
        /\ sftp.open = 0
        /\ sftp.puts = sftp.opened

\* the lines of one kind among those ssh() printed
PrintedOf(kind) == SelectSeq(printed, LAMBDA l : l.kind = kind)

\* the attempts that failed with a retried error while more attempts remained
EarlyFailures ==
    {i \in 1..Len(connects) :
        connects[i] = "OSError" /\ i < args.max_attempts}

AliasEntry ==
    IF aliasFile.exists /\ args.host = "h1" THEN aliasFile.h1 ELSE NoEntry

\* C13: once ssh() has built the connect arguments, each of username, port,
\* proxy command and identity file is set exactly when the alias file exists
\* and its entry for the host has the option; an entry with port 2222 and no
\* user gives port = 2222 and no username; an alias without entry or a
\* missing file sets none of the four and raises nothing.  The password is
\* the caller's, hostname and timeout are the caller's host and max_timeout.
C13_AliasResolution ==
    pc \notin {"idle", "direct"} =>
        /\ DOMAIN cfg \subseteq {"hostname", "timeout", "password", "username",
                                 "sock", "key_filename", "port"}
        /\ cfg["hostname"] = args.host
        /\ cfg["timeout"] = args.max_timeout
        /\ ("password" \in DOMAIN cfg) <=> (args.ssh_password # "None")
        /\ ("password" \in DOMAIN cfg) => cfg["password"] = args.ssh_password
        /\ ("username" \in DOMAIN cfg) <=> ("user" \in DOMAIN AliasEntry)
        /\ ("sock" \in DOMAIN cfg) <=> ("proxycommand" \in DOMAIN AliasEntry)
        /\ ("key_filename" \in DOMAIN cfg)
              <=> ("identityfile" \in DOMAIN AliasEntry)
        /\ ("port" \in DOMAIN cfg) <=> ("port" \in DOMAIN AliasEntry)
        /\ (AliasEntry = PortOnly) =>
              cfg["port"] = 2222 /\ "username" \notin DOMAIN cfg
        /\ (AliasEntry = FullEntry) =>
              /\ cfg["port"] = 22
              /\ cfg["username"] = <<"a", "l">>
              /\ cfg["sock"] = <<"n", "c">>
              /\ cfg["key_filename"] = <<"i", "d">>
        /\ (args.host = "h2" \/ ~aliasFile.exists) =>
              DOMAIN cfg \subseteq {"hostname", "timeout", "password"}
        /\ (pc = "loop" /\ attempts = 0) => raised = << >>

C13_Witness ==
    /\ pc = "loop"
    /\ args.host = "h1"
    /\ aliasFile.exists /\ aliasFile.h1 = PortOnly
    /\ cfg["port"] = 2222
    /\ args.ssh_password = "pw"

\* C14 as claimed: establishment that ended without a successful connect made
\* all max_attempts attempts and ended with MaxConnectionAttemptsError,
\* whatever the failures were.
C14_EveryFailureRetried ==
    (pc = "done" /\ connects # << >>
       /\ \A i \in 1..Len(connects) : connects[i] # "ok") =>
        /\ Len(connects) = args.max_attempts
        /\ Len(raised) = 1
        /\ raised[1].type = "MaxConnectionAttemptsError"

\* C14 amended: a failure that is an OSError is handled by the loop - before
\* the last allowed attempt it is followed by a sleep of max_timeout and the
\* loop goes on, on the last allowed attempt the loop ends and establishment
\* fails with MaxConnectionAttemptsError.  A failure that is not an OSError
\* is not handled: it is the last attempt made, it is what ssh() raises, the
\* client is closed and nothing is printed for it.
C14_OnlyOSErrorRetried ==
    \A i \in 1..Len(connects) :
        /\ (connects[i] = "OSError" /\ i < args.max_attempts) =>
              /\ i < Len(connects) \/ pc = "loop"
              /\ Len(sleeps) >= i /\ sleeps[i] = args.max_timeout
              /\ Len(printed) >= i /\ printed[i].kind = "retry"
        /\ (connects[i] = "OSError" /\ i = args.max_attempts) =>
              /\ i = Len(connects)
              /\ pc = "loop"
                 \/ /\ pc = "done"
                    /\ raised = << [type |-> "MaxConnectionAttemptsError",
                                    host |-> args.host, n |-> i] >>
        /\ connects[i] = "SSHException" =>
              /\ i = Len(connects)
              /\ pc = "done"
              /\ raised = << [type |-> "SSHException", host |-> "", n |-> 0] >>
              /\ client = "closed"
              /\ Len(printed) = i - 1
              /\ yields = 0

C14_Witness ==
    /\ pc = "done"
    /\ args.max_attempts = 3
    /\ connects = <<"OSError", "SSHException">>
    /\ Len(sleeps) = 1
    /\ raised[1].type = "SSHException"

\* the steps of every recorded call that opened a channel are: open the
\* session channel, enable agent forwarding iff forward_agent, request a
\* pseudo-terminal iff sudoable, submit the command
StepsInOrder ==
    \A r \in RecordedCalls :
        r.chan # 0 =>
            r.steps =
              CASE conn.forward_agent /\ conn.sudoable ->
                     <<"open_session", "AgentRequestHandler", "get_pty",
                       "exec_command">>
                [] conn.forward_agent /\ ~conn.sudoable ->
                     <<"open_session", "AgentRequestHandler", "exec_command">>
                [] ~conn.forward_agent /\ conn.sudoable ->
                     <<"open_session", "get_pty", "exec_command">>
                [] OTHER -> <<"open_session", "exec_command">>

\* C15: every exec_command call performs its channel steps in the fixed
\* order, agent forwarding and the pseudo-terminal depending on the two
\* flags alone; the flags of a Connection never change once it exists, and
\* a Connection yielded by ssh() has the flags ssh() was called with.
C15_ChannelOrder ==
    /\ [](StepsInOrder)
    /\ [](yields > 0 => /\ conn.forward_agent = args.forward_agent
                       /\ conn.sudoable = args.sudoable)
    /\ [][conn # NoConn => conn' = conn]_vars

C15_Witness ==
    /\ conn.forward_agent /\ conn.sudoable
    /\ lastSudo.chan = 2
    /\ lastSudo.steps[3] = "get_pty"
    /\ lastExec.chan = 1
    /\ lastExec.steps[2] = "AgentRequestHandler"

\* what a call with max_attempts n that has seen the connect results cs
\* shows when it runs alone
AloneNotices(n, cs) ==
    Cardinality({i \in 1..Len(cs) : cs[i] = "OSError" /\ i < n})

AloneDiags(n, cs) ==
    IF n >= 1 /\ Len(cs) = n /\ cs[n] = "OSError" THEN 1 ELSE 0

\* C16: under every interleaving of two concurrent ssh() calls, each call's
\* attempt counter, its number of attempts, its retry notices and its
\* outcome are those of a call running alone on the same connect results.
C16_CallsIndependent ==
    \A t \in Threads :
        LET f == thr[t]
            n == f.max_attempts
            cs == f.connects
            k == Len(cs)
        IN  f.pc # "idle" =>
              /\ Attempts(t) = k + (IF f.pc = "connecting" THEN 1 ELSE 0)
              /\ Attempts(t) <= (IF n > 0 THEN n ELSE 0)
              /\ \A i \in 1..k : cs[i] # "OSError" => i = k
              /\ f.notices = AloneNotices(n, cs)
              /\ Len(f.sleeps) = AloneNotices(n, cs)
              /\ f.diags = AloneDiags(n, cs)
              /\ f.pc \in {"afterloop", "yielded"} =>
                   cs[k] = "ok" /\ f.raised = "none"
              /\ f.pc = "loop" =>
                   \A i \in 1..k : cs[i] = "OSError"
              /\ f.pc = "done" =>
                   /\ f.client = "closed"
                   /\ (f.raised = "none") <=>
                        (k > 0 /\ cs[k] = "ok" /\ f.yielded)
                   /\ (f.raised = "SSHException") <=>
                        (k > 0 /\ cs[k] = "SSHException")
                   /\ (f.raised = "MaxConnectionAttemptsError") <=>
                        /\ k = (IF n > 0 THEN n ELSE 0)
                        /\ \A i \in 1..k : cs[i] = "OSError"

C16_Witness ==
    /\ thr[1].host = thr[2].host
    /\ thr[1].pc = "connecting" /\ Len(thr[1].connects) = 1
    /\ thr[2].pc = "connecting" /\ Len(thr[2].connects) = 2
    /\ thr[1].max_attempts = 2 /\ thr[2].max_attempts = 3

\* C17: a call with max_attempts <= 0 makes no connect attempt, prints
\* nothing, does not sleep and yields no Connection; it ends with
\* MaxConnectionAttemptsError and the client closed.
C17_NoAttemptWhenNonPositive ==
    (pc # "idle" /\ args.max_attempts <= 0) =>
        /\ connects = << >> /\ attempts = 0
        /\ printed = << >> /\ sleeps = << >>
        /\ yields = 0 /\ conn = NoConn
        /\ pc \in {"loop", "done"}
        /\ pc = "done" =>
             /\ client = "closed"
             /\ Len(raised) = 1
             /\ raised[1].type = "MaxConnectionAttemptsError"
             /\ raised[1].host = args.host

C17_Witness ==
    /\ pc = "done"
    /\ args.max_attempts = -1
    /\ client = "closed"
    /\ Len(raised) = 1

\* establishment has ended: a Connection was yielded or ssh() raised
Established == pc = "yielded" /\ conn.transport = "transport"
Failed == pc = "done" /\ Len(raised) = 1

\* C18: for max_attempts >= 1, the attempts counter stays within
\* 0..max_attempts and counts the connect calls, every step leaves it alone
\* or adds exactly one together with one connect call, and - every step of
\* the loop being taken eventually - establishment ends with a Connection
\* or with an exception.
C18_BoundedTermination ==
    /\ []((pc # "idle" /\ args.max_attempts >= 1) =>
            /\ 0 <= attempts /\ attempts <= args.max_attempts
            /\ attempts = Len(connects))
    /\ [][\/ attempts' = attempts /\ connects' = connects
          \/ attempts' = attempts + 1
               /\ Len(connects') = Len(connects) + 1]_vars
    /\ (pc = "loop" /\ args.max_attempts >= 1) ~> (Established \/ Failed)

C18_Witness ==
    /\ pc = "done"
    /\ args.max_attempts = 3
    /\ attempts = 3
    /\ connects = <<"OSError", "OSError", "SSHException">>

\* C12: a report call reads every remaining line of the stream.  With no
\* line it writes nothing; otherwise it writes one header naming the kind
\* and the host, then one line per stream line in stream order, each without
\* trailing whitespace and otherwise unchanged, to standard output for
\* report_stdout and to standard error for report_stderr.
C12_ReportFormat ==
    LET r == lastReport
        n == Len(r.lines)
    IN  r.kind # "none" =>
          /\ stream = << >>
          /\ n = 0 => r.out = << >>
          /\ n > 0 =>
               /\ Len(r.out) = n + 1
               /\ r.out[1].text =
                    <<IF r.kind = "output" THEN "STDOUT" ELSE "STDERR",
                      " from ", r.host, ":">>
               /\ \A i \in 1..n :
                    LET t == r.out[i + 1].text
                    IN  /\ r.out[i + 1].file =
                             (IF r.kind = "output" THEN "stdout" ELSE "stderr")
                        /\ Len(t) <= Len(r.lines[i])
                        /\ t = SubSeq(r.lines[i], 1, Len(t))
                        /\ t # << >> => t[Len(t)] \notin {" ", "NL"}
                        /\ \A j \in (Len(t) + 1)..Len(r.lines[i]) :
                             r.lines[i][j] \in {" ", "NL"}
          /\ Len(console) >= Len(r.out)
          /\ SubSeq(console, Len(console) - Len(r.out) + 1, Len(console))
                = r.out

C12_Witness ==
    /\ lastReport.kind = "error"
    /\ lastReport.lines = << <<" ", "a", "NL">>, <<"a", " ", "NL">> >>
    /\ Len(lastReport.out) = 3
    /\ lastReport.out[3].text = <<"a">>
    /\ lastReport.out[3].file = "stderr"

(* ---------------------------- specifications --------------------------- *)
\* establishment: ssh() over all modelled arguments, the caller's block
\* reduced to the way it ends
Next == SshCall \/ Attempt \/ LoopElse \/ Yield \/ BlockEnd

Spec == Init /\ [][Next]_vars

\* use of a Connection: the methods called inside the caller's block, after
\* it, or on a Connection built around a client that never connected
NextConn ==
    \/ SshCallPlain \/ Attempt \/ LoopElse \/ Yield \/ BlockEnd
    \/ DirectConnection
    \/ ExecCommand \/ SudoCommand \/ RemoteExit \/ ExecReturn \/ PutFile

SpecConn == Init /\ [][NextConn]_vars

\* reporting: a stream with any of the modelled contents, partly read by the
\* caller, then reported
InitReport ==
    InitCalls /\ InitReports /\ stream \in StreamContents /\ InitThreads

NextReport == ReadLine \/ report_stdout \/ report_stderr

SpecReport == InitReport /\ [][NextReport]_vars

\* establishment whose steps are all taken eventually: the generator runs
\* on and every connect call returns or raises
SpecLive ==
    Spec /\ WF_vars(Attempt) /\ WF_vars(LoopElse) /\ WF_vars(Yield)

\* two ssh() calls made concurrently by two threads of control
NextTwo ==
    \/ ThreadCall \/ ThreadConnectStart \/ ThreadConnectDone
    \/ ThreadLoopElse \/ ThreadYield \/ ThreadBlockEnd

SpecTwo == Init /\ [][NextTwo]_vars
====
